---- MODULE Spec2Model ----
(***************************************************************************)
(* The receding-horizon trajectory optimiser QuadraticProgram of           *)
(* scripts/tag_src/motion_planner_module.py as a state machine (Spec),     *)
(* with its consumer TrajectoryParser of osqp_tuning/trajectory_parser.py  *)
(* (SpecParser) and the control loop of experiment_1/experiment_1_script.py *)
(* that owns the Simulator (SpecMain).                                     *)
(*                                                                         *)
(* Numbers are fixed point.  Lengths, velocities, controls, slacks and     *)
(* accelerations are integers in units of 1/Milli.  The step size dt is an *)
(* integer number of 1/DtDen seconds.  The coefficients of the equality    *)
(* block are integers over the common denominator EqDen, those of the      *)
(* inequality block over IneqDen: a stored row  a . q (<=,=) b  holds      *)
(* a * Den and b * Den * Milli.  np.Inf is the integer Inf.  A float       *)
(* vector is a record [nan, v]: nan is TRUE when its entries are NaN.      *)
(***************************************************************************)
EXTENDS Integers, Sequences, FiniteSets, TLC

\* ---------------------------------------------------------------- bounds
Nodes == 2
SplineResolution == 1
\* output periods the parser is followed for
ParserSteps == 25
\* iterations of the control loop: FINAL_TIME / dt, cut short
FinalSteps == 40

\* ----------------------------------------------------- program constants
MassMilli == 27
FrictionMilli == 10
TolMilli == 1
PosBound == 2000
VelBound == 2000
CtrlBound == 75
AreaBound == 750
WeightSlack == 10000
WeightControl == 100
WeightVelocity == 1
WeightRisk == 100
FullSize == 6
NumSlack == 3

\* ----------------------------------------------------------------- scales
Milli == 10 ^ 3
DtDen == 2 * Milli
EqDen == MassMilli * DtDen
NormalDen == 10 ^ 2
IneqDen == Milli * NormalDen
Inf == 10 ^ 9
TimeHorizon == 1 * DtDen

\* --------------------------------------------------------------- helpers
Abs(a) == IF a < 0 THEN 0 - a ELSE a
Sign(a) == IF a < 0 THEN 0 - 1 ELSE IF a > 0 THEN 1 ELSE 0
Min(a, b) == IF a < b THEN a ELSE b
Max(a, b) == IF a < b THEN b ELSE a
\* float division, truncated toward zero; 0 when the divisor is 0
TruncDiv(a, b) == IF b = 0 THEN 0 ELSE Sign(a) * Sign(b) * (Abs(a) \div Abs(b))
FloorDiv(a, b) == a \div b

\* a function over 1..n as a fully evaluated sequence
Vec(f) == f \o << >>
RECURSIVE DotTo(_, _, _)
DotTo(a, q, n) ==
    IF n = 0 THEN 0
    ELSE (IF a[n] = 0 THEN 0 ELSE a[n] * q[n]) + DotTo(a, q, n - 1)
Dot(a, q) == DotTo(a, q, Len(a))

RECURSIVE IsqrtFrom(_, _)
IsqrtFrom(n, r) == IF (r + 1) * (r + 1) > n THEN r ELSE IsqrtFrom(n, r + 1)
RECURSIVE Isqrt(_)
Isqrt(n) == IF n < 4 THEN IsqrtFrom(n, 0)
            ELSE LET s == 2 * Isqrt(n \div 4) IN IF (s + 1) * (s + 1) > n THEN s ELSE s + 1

\* --------------------------------------------------------- vector layout
NumCh == FullSize + NumSlack
NVars == NumCh * Nodes
Ch == [x |-> 1, y |-> 2, dx |-> 3, dy |-> 4, ux |-> 5, uy |-> 6,
       sx |-> 7, sy |-> 8, s |-> 9]
\* q.reshape((num_states + num_slack, -1))[ch, j]
Idx(ch, j) == (ch - 1) * Nodes + j
At(q, ch, j) == q[Idx(ch, j)]
Zeros(n) == Vec([c \in 1..n |-> 0])
FVec(v) == [nan |-> FALSE, v |-> v]
NaNVec(n) == [nan |-> TRUE, v |-> Zeros(n)]
Bump(p, c) == [p EXCEPT ![c] = p[c] + 1]

\* ------------------------------------------------ horizon grid (__init__)
\* self._time_vector = np.linspace(0, time_horizon, nodes), in 1/DtDen s
TimeVector(j) == TruncDiv(TimeHorizon * (j - 1), Nodes - 1)

\* ----------------------------------------------------- compute_control
\* ddq * mass + friction * dq, in 1/Milli
ConvertToControl(ddq, dq) == TruncDiv(MassMilli * ddq + FrictionMilli * dq, Milli)
ComputeControl(ddq, dq, limit) ==
    LET u == ConvertToControl(ddq, dq)
    IN  IF Abs(u) < limit THEN u ELSE Sign(u) * limit

\* the tick's initial_conditions after the in-place conversion of entries
\* [-3] and [-2] (planar accelerations) into controls
ConvertInitialConditions(ic) ==
    [ic EXCEPT ![7] = ComputeControl(ic[7], ic[4], CtrlBound),
               ![8] = ComputeControl(ic[8], ic[5], CtrlBound)]

\* ------------------------------------------------- compute_acceleration
\* (mutant) the drag term left out: u / mass
ComputeAccelerationNoDrag(u, dq) == TruncDiv(Milli * u, MassMilli)
\* (u - friction * dx) / mass, in 1/Milli
ComputeAcceleration(u, dq) == TruncDiv(Milli * u - FrictionMilli * dq, MassMilli)

\* ------------------------------------------------ _equality_constraints
EqRows == 6 + 4 * (Nodes - 1)
\* x[0][1:] - x[0][:-1] - x[1][:-1] * dt at transition i, times EqDen;
\* rate is x[1][i] times mass (in 1/Milli), so that rate * dt * EqDen / mass
\* is the integer rate * dt
CollocationConstraint(next, cur, rate, dt) == EqDen * (next - cur) - rate * dt
\* mass * ddx with ddx = (ux - friction * dx) / mass
MassTimesAcc(u, dq) == Milli * u - FrictionMilli * dq

EqualityConstraints(q, ic, dt) ==
    LET initial_condition ==
            << EqDen * (At(q, Ch.x, 1) - ic[1]),
               EqDen * (At(q, Ch.y, 1) - ic[2]),
               EqDen * (At(q, Ch.dx, 1) - ic[4]),
               EqDen * (At(q, Ch.dy, 1) - ic[5]),
               EqDen * (At(q, Ch.ux, 1) - ic[7]),
               EqDen * (At(q, Ch.uy, 1) - ic[8]) >>
        x_defect == [i \in 1..(Nodes - 1) |->
            CollocationConstraint(At(q, Ch.x, i + 1), At(q, Ch.x, i),
                                  MassMilli * At(q, Ch.dx, i), dt)]
        y_defect == [i \in 1..(Nodes - 1) |->
            CollocationConstraint(At(q, Ch.y, i + 1), At(q, Ch.y, i),
                                  MassMilli * At(q, Ch.dy, i), dt)]
        dx_defect == [i \in 1..(Nodes - 1) |->
            CollocationConstraint(At(q, Ch.dx, i + 1), At(q, Ch.dx, i),
                                  MassTimesAcc(At(q, Ch.ux, i), At(q, Ch.dx, i)), dt)]
        dy_defect == [i \in 1..(Nodes - 1) |->
            CollocationConstraint(At(q, Ch.dy, i + 1), At(q, Ch.dy, i),
                                  MassTimesAcc(At(q, Ch.uy, i), At(q, Ch.dy, i)), dt)]
    IN  initial_condition \o x_defect \o y_defect \o dx_defect \o dy_defect

\* ---------------------------------------------- halfspace (update_qp 508-514)
\* obstacle_states[3:5] * t_j + obstacle_states[:2]; obs = <<x, y, z, dx, dy, dz>>
ObstacleTrajectory(obs) ==
    [px |-> Vec([j \in 1..Nodes |-> obs[1] + TruncDiv(obs[4] * TimeVector(j), DtDen)]),
     py |-> Vec([j \in 1..Nodes |-> obs[2] + TruncDiv(obs[5] * TimeVector(j), DtDen)])]
\* (mutant) the planar positions taken from the all-zero _setpoint
PreviousTrajectoryOfSetpoint(ws) == [px |-> Zeros(Nodes), py |-> Zeros(Nodes)]
\* previous_trajectory = reshape(_warm_start)[:state_dimension, :]
PreviousTrajectory(ws) ==
    [px |-> Vec([j \in 1..Nodes |-> At(ws.v, Ch.x, j)]),
     py |-> Vec([j \in 1..Nodes |-> At(ws.v, Ch.y, j)])]
\* halfspace_vector = obstacle_trajectory - previous_trajectory; NaN when the
\* warm start is NaN
HalfspaceVector(ot, ws) ==
    LET prev == PreviousTrajectory(ws)
    IN  [nan |-> ws.nan,
         hx |-> Vec([j \in 1..Nodes |-> ot.px[j] - prev.px[j]]),
         hy |-> Vec([j \in 1..Nodes |-> ot.py[j] - prev.py[j]])]
\* 0/0 in linearized_distance: einsum(h, h) = 0
Degenerate(h, j) == h.nan \/ (h.hx[j] = 0 /\ h.hy[j] = 0)
Norm(h, j) == Isqrt(h.hx[j] * h.hx[j] + h.hy[j] * h.hy[j])
\* h / |h| per node, in 1/NormalDen: the factor of relative_distance in
\* linearized_distance = (rel . h / h . h) * |h|, a function of h alone
UnitNormal(h) ==
    [nan |-> h.nan,
     degenerate |-> {j \in 1..Nodes : Degenerate(h, j)},
     nx |-> Vec([j \in 1..Nodes |->
                IF Degenerate(h, j) THEN 0 ELSE TruncDiv(NormalDen * h.hx[j], Norm(h, j))]),
     ny |-> Vec([j \in 1..Nodes |->
                IF Degenerate(h, j) THEN 0 ELSE TruncDiv(NormalDen * h.hy[j], Norm(h, j))])]

\* ---------------------------------------------- _inequality_constraints
AreaRows == 4 * Nodes
IneqRows == AreaRows + SplineResolution * Nodes
\* linearized_distance[j] in 1/(Milli * NormalDen)
LinearizedDistance(q, ot, n, j) ==
    (ot.px[j] - At(q, Ch.x, j)) * n.nx[j] + (ot.py[j] - At(q, Ch.y, j)) * n.ny[j]
\* risk = <<slope, intercept>> per segment: slope in 1/Milli, intercept in 1/Milli
InequalityConstraints(q, ot, n, risk) ==
    LET area_bound == [r \in 1..AreaRows |->
            LET blk == (r - 1) \div Nodes
                j == ((r - 1) % Nodes) + 1
            IN  CASE blk = 0 -> IneqDen * (0 - At(q, Ch.x, j) - AreaBound - At(q, Ch.sx, j))
                  [] blk = 1 -> IneqDen * (0 - At(q, Ch.y, j) - AreaBound - At(q, Ch.sy, j))
                  [] blk = 2 -> IneqDen * (At(q, Ch.x, j) - AreaBound - At(q, Ch.sx, j))
                  [] OTHER   -> IneqDen * (At(q, Ch.y, j) - AreaBound - At(q, Ch.sy, j))]
        \* rfun[i, j] = s[j] - (m[i] * x[j] + b[i])
        rfun == [r \in 1..(SplineResolution * Nodes) |->
            LET i == ((r - 1) \div Nodes) + 1
                j == ((r - 1) % Nodes) + 1
            IN  IneqDen * At(q, Ch.s, j)
                - (risk[i][1] * LinearizedDistance(q, ot, n, j) + IneqDen * risk[i][2])]
    IN  area_bound \o rfun
\* the rows of the inequality residual (and of its Jacobian) that are NaN
NaNRows(n) ==
    {AreaRows + (i - 1) * Nodes + j : i \in 1..SplineResolution, j \in n.degenerate}

\* -------------------------------------------------------------- jacfwd
\* the Jacobian at p by one tangent per column (forward mode); the residuals
\* are affine in q, so the unit step is exact
AEqFn(p, ic, dt) ==
    LET base == EqualityConstraints(p, ic, dt)
        cols == Vec([c \in 1..NVars |-> EqualityConstraints(Bump(p, c), ic, dt)])
    IN  Vec([r \in 1..EqRows |-> Vec([c \in 1..NVars |-> cols[c][r] - base[r]])])
AIneqFn(p, ot, n, risk) ==
    LET base == InequalityConstraints(p, ot, n, risk)
        cols == Vec([c \in 1..NVars |-> InequalityConstraints(Bump(p, c), ot, n, risk)])
    IN  Vec([r \in 1..IneqRows |-> Vec([c \in 1..NVars |-> cols[c][r] - base[r]])])
Negate(v) == Vec([r \in 1..Len(v) |-> 0 - v[r]])

\* --------------------------------------------------- _objective_function
\* weight of the channel's quadratic term, in 1/100
QuadWeight(ch) ==
    CASE ch \in {Ch.sx, Ch.sy} -> WeightSlack
      [] ch \in {Ch.ux, Ch.uy} -> WeightControl
      [] ch \in {Ch.dx, Ch.dy} -> WeightVelocity
      [] OTHER -> 0
ChannelOf(c) == ((c - 1) \div Nodes) + 1
\* jacfwd(objective)(p): 2 w q for the squared channels, -w[3] for the risk slack
FFn(p) == Vec([c \in 1..NVars |->
    IF ChannelOf(c) = Ch.s THEN 0 - WeightRisk ELSE 2 * QuadWeight(ChannelOf(c)) * p[c]])
\* jacfwd(jacrev(objective))(p): the objective is separable, H is diagonal
Hessian == Vec([r \in 1..NVars |-> Vec([c \in 1..NVars |->
    IF r = c THEN 2 * QuadWeight(ChannelOf(c)) ELSE 0])])
HFn(p) == Hessian

\* ------------------------------------------------------------ box bounds
\* opt_var_lb / opt_var_ub (__init__ 76-95), per channel
OptVarLb == Vec([c \in 1..NVars |->
    CASE ChannelOf(c) \in {Ch.x, Ch.y} -> 0 - PosBound
      [] ChannelOf(c) \in {Ch.dx, Ch.dy} -> 0 - VelBound
      [] ChannelOf(c) \in {Ch.ux, Ch.uy} -> 0 - CtrlBound
      [] ChannelOf(c) \in {Ch.sx, Ch.sy} -> 0
      [] OTHER -> 0 - Inf])
OptVarUb == Vec([c \in 1..NVars |->
    CASE ChannelOf(c) \in {Ch.x, Ch.y} -> PosBound
      [] ChannelOf(c) \in {Ch.dx, Ch.dy} -> VelBound
      [] ChannelOf(c) \in {Ch.ux, Ch.uy} -> CtrlBound
      [] ChannelOf(c) \in {Ch.sx, Ch.sy} -> Inf
      [] OTHER -> 0])

\* --------------------------------------------- the MathematicalProgram
\* prog.AddLinearConstraint(A, lb, ub, vars): a new constraint block
AddLinearConstraint(A, lb, ub, nan) == [A |-> A, lb |-> lb, ub |-> ub, nan |-> nan]
\* evaluator().UpdateCoefficients(new_A, new_lb, new_ub): in place
UpdateCoefficients(c, new_A, new_lb, new_ub, nan) ==
    [c EXCEPT !.A = new_A, !.lb = new_lb, !.ub = new_ub, !.nan = nan]
\* evaluator().RemoveTinyCoefficient(tol): A(i, j) becomes 0 when |A(i, j)| <= tol;
\* tol is given in 1/Milli, den is the block's denominator
RemoveTinyCoefficient(c, tol, den) ==
    [c EXCEPT !.A = Vec([r \in DOMAIN c.A |-> Vec([k \in DOMAIN c.A[r] |->
        IF Abs(c.A[r][k]) * Milli <= tol * den THEN 0 ELSE c.A[r][k]])])]
\* AddQuadraticCost(Q, b) and evaluator().UpdateCoefficients(new_Q, new_b)
QuadraticCost(Q, b) == [Q |-> Q, b |-> b]

NoProg == [built |-> FALSE, num_vars |-> 0, bbox_lb |-> <<>>, bbox_ub |-> <<>>,
           linear |-> <<>>, costs |-> <<>>]
\* b_ineq_lb = copy(-b_ineq_ub); b_ineq_lb[:] = NINF
AllNegInf(n) == Vec([r \in 1..n |-> 0 - Inf])

\* the coefficients both call sites compute from the tick's inputs
\* (build_optimization 400-430, update_qp 516-542)
Coefficients(lin, icc, ot, h, risk, step) ==
    LET n == UnitNormal(h)
    IN  [A_eq |-> AEqFn(lin.v, icc, step),
         b_eq |-> Negate(EqualityConstraints(lin.v, icc, step)),
         A_ineq |-> AIneqFn(lin.v, ot, n, risk),
         b_ineq_ub |-> Negate(InequalityConstraints(lin.v, ot, n, risk)),
         b_ineq_lb |-> AllNegInf(IneqRows),
         nan |-> NaNRows(n),
         H |-> HFn(lin.v),
         f |-> FFn(lin.v)]

\* build_optimization 432-465: a new program with the blocks added
BuildProgram(k) ==
    [built |-> TRUE, num_vars |-> NVars, bbox_lb |-> OptVarLb, bbox_ub |-> OptVarUb,
     linear |-> << AddLinearConstraint(k.A_eq, k.b_eq, k.b_eq, {}),
                   AddLinearConstraint(k.A_ineq, k.b_ineq_lb, k.b_ineq_ub, k.nan) >>,
     costs |-> << QuadraticCost(k.H, k.f) >>]
\* (mutant) the blocks and the cost added to the program again at every tick
UpdateProgramAddingAgain(pr, k) ==
    [pr EXCEPT
       !.linear = pr.linear \o << AddLinearConstraint(k.A_eq, k.b_eq, k.b_eq, {}),
                                  AddLinearConstraint(k.A_ineq, k.b_ineq_lb, k.b_ineq_ub,
                                                      k.nan) >>,
       !.costs = pr.costs \o << QuadraticCost(k.H, k.f) >>]
\* update_qp 544-562: the coefficients of the existing blocks replaced and pruned
UpdateProgram(pr, k) ==
    [pr EXCEPT
       !.linear[1] = RemoveTinyCoefficient(
                         UpdateCoefficients(pr.linear[1], k.A_eq, k.b_eq, k.b_eq, {}),
                         TolMilli, EqDen),
       !.linear[2] = RemoveTinyCoefficient(
                         UpdateCoefficients(pr.linear[2], k.A_ineq, k.b_ineq_lb,
                                            k.b_ineq_ub, k.nan),
                         TolMilli, IneqDen),
       !.costs[1] = QuadraticCost(k.H, k.f)]

\* ------------------------------------------------------------ the solver
\* q satisfies the program: box bounds and every row of every linear block
Feasible(pr, q) ==
    /\ \A c \in 1..pr.num_vars : pr.bbox_lb[c] <= q[c] /\ q[c] <= pr.bbox_ub[c]
    /\ \A b \in 1..Len(pr.linear) :
          /\ pr.linear[b].nan = {}
          /\ \A r \in DOMAIN pr.linear[b].A :
                LET v == Dot(pr.linear[b].A[r], q)
                IN  pr.linear[b].lb[r] <= v /\ v <= pr.linear[b].ub[r]

\* the value of variable c that makes row r of block blk an equality, the
\* other variables as in q (where q[c] = 0)
SolveRow(blk, r, c, q) == TruncDiv(blk.ub[r] - Dot(blk.A[r], q), blk.A[r][c])
Assign(blk, r, ch, j, q) == [q EXCEPT ![Idx(ch, j)] = SolveRow(blk, r, Idx(ch, j), q)]
\* the control the candidate applies at the nodes the program leaves free
Policy(kind, dq) == IF kind = "coast" THEN TruncDiv(FrictionMilli * dq, Milli) ELSE 0

\* forward substitution through the stored equality block: node 1 from the six
\* initial-condition rows, node i + 1 from the four defect rows of transition i
RECURSIVE Forward(_, _, _, _)
Forward(blk, q, i, kind) ==
    IF i >= Nodes THEN q
    ELSE LET qa == Assign(blk, 6 + i, Ch.x, i + 1, q)
             qb == Assign(blk, 6 + (Nodes - 1) + i, Ch.y, i + 1, qa)
             qc == Assign(blk, 6 + 2 * (Nodes - 1) + i, Ch.dx, i + 1, qb)
             qd == Assign(blk, 6 + 3 * (Nodes - 1) + i, Ch.dy, i + 1, qc)
             qe == [qd EXCEPT ![Idx(Ch.ux, i + 1)] = Policy(kind, At(qd, Ch.dx, i + 1)),
                              ![Idx(Ch.uy, i + 1)] = Policy(kind, At(qd, Ch.dy, i + 1))]
         IN  Forward(blk, qe, i + 1, kind)
NodeOne(blk) ==
    LET q1 == Assign(blk, 1, Ch.x, 1, Zeros(NVars))
        q2 == Assign(blk, 2, Ch.y, 1, q1)
        q3 == Assign(blk, 3, Ch.dx, 1, q2)
        q4 == Assign(blk, 4, Ch.dy, 1, q3)
        q5 == Assign(blk, 5, Ch.ux, 1, q4)
    IN  Assign(blk, 6, Ch.uy, 1, q5)

\* the largest risk slack the stored risk rows of node j allow, at most 0
RiskSlack(blk, q, j) ==
    LET rows == {AreaRows + (i - 1) * Nodes + j : i \in 1..SplineResolution}
        cap(r) == IF blk.A[r][Idx(Ch.s, j)] <= 0 THEN 0
                  ELSE FloorDiv(blk.ub[r] - Dot(blk.A[r], q), blk.A[r][Idx(Ch.s, j)])
        caps == {cap(r) : r \in rows} \cup {0}
    IN  CHOOSE m \in caps : \A o \in caps : m <= o
WithSlack(pr, q) ==
    LET qs == Vec([c \in 1..NVars |->
            LET j == ((c - 1) % Nodes) + 1
            IN  CASE ChannelOf(c) = Ch.sx -> Max(0, Abs(At(q, Ch.x, j)) - AreaBound)
                  [] ChannelOf(c) = Ch.sy -> Max(0, Abs(At(q, Ch.y, j)) - AreaBound)
                  [] OTHER -> q[c]])
    IN  Vec([c \in 1..NVars |->
            IF ChannelOf(c) = Ch.s /\ pr.linear[2].nan = {}
            THEN RiskSlack(pr.linear[2], qs, ((c - 1) % Nodes) + 1)
            ELSE qs[c]])
\* the same vector with every entry moved into its box
Clamped(pr, q) == Vec([c \in 1..NVars |-> Max(pr.bbox_lb[c], Min(pr.bbox_ub[c], q[c]))])

\* the vectors the solver is offered; it returns one only if it is feasible
Candidates(pr) ==
    LET plain == {WithSlack(pr, Forward(pr.linear[1], NodeOne(pr.linear[1]), 1, kind)) :
                      kind \in {"zero", "coast"}}
    IN  plain \cup {Clamped(pr, q) : q \in plain}

\* GurobiSolver.Solve(prog, warm_start, options): a feasible vector and
\* success, or no success and the result's NaN-filled x_val
Solve(pr, guess) ==
    {[success |-> TRUE, x |-> FVec(q)] : q \in {c \in Candidates(pr) : Feasible(pr, c)}}
    \cup {[success |-> FALSE, x |-> NaNVec(NVars)]}

\* ------------------------------------------------------------- the state
VARIABLES
    dt,                     \* self._dt (config.dt), in 1/DtDen s
    setpoint,               \* self._setpoint
    warm_start,             \* self._warm_start
    full_state_trajectory,  \* self._full_state_trajectory
    a_state,                \* the abstract state behind motion_plan_output
    prog,                   \* self.prog with its constraint and cost objects
    solution,               \* self.solution
    tick,                   \* what the last tick read, used and how it ended
    sim                     \* the Simulator's dispatch of the planner's two events
engine_vars ==
    << dt, setpoint, warm_start, full_state_trajectory, a_state, prog, solution, tick, sim >>

\* TrajectoryParser (osqp_tuning/trajectory_parser.py), the consumer of the plan
VARIABLES
    context_time,           \* context.get_time() of the parser, in 1/DtDen s
    pending,                \* the parser's events due at context_time, not yet dispatched
    trajectory_time,        \* self._trajectory_time
    trajectory,             \* self.trajectory: the samples of the first-order hold
    parser_a_state          \* the abstract state behind parser_output
parser_vars == << context_time, pending, trajectory_time, trajectory, parser_a_state >>

\* main() of experiment_1/experiment_1_script.py, the owning control loop
VARIABLES
    main                    \* its position, loop variable and what it has called
main_vars == << main >>

vars == << engine_vars, parser_vars, main_vars >>

\* ------------------------------------------------------- the tick inputs
\* config.dt: half a millisecond, and time_horizon / (nodes - 1) at 21 nodes
DtSet == {1, 100}
\* initial_condition port: <<x, y, z, dx, dy, dz, ddx, ddy, ddz>>
ICRest == << 0, 0, 500, 0, 0, 0, 0, 0, 0 >>
ICCoast == << 0, 0, 500, 100, 0 - 100, 0, 0, 0, 0 >>
ICOutOfBox == << 3000, 0, 500, 0, 0, 0, 0, 0, 0 >>
ICHardAcc == << 0, 0, 500, 480, 0, 0, 5000, 0, 0 >>
ICSet == {ICRest, ICCoast, ICOutOfBox, ICHardAcc}
\* obstacle_states port: <<x, y, z, dx, dy, dz>>
ObsSet == { << 1000, 1000, 500, 0 - 200, 0, 0 >>, << 0, 0, 500, 0, 0, 0 >> }
\* risk_constraints port reshaped to (spline_resolution, 2): <<slope, intercept>>
RiskLoose == Vec([i \in 1..SplineResolution |-> << 1, 1000 >>])
RiskTight == Vec([i \in 1..SplineResolution |-> << 500, 0 - 1000 >>])
RiskSet == {RiskLoose, RiskTight}
\* what the operator of the pdb prompt does: continue, or quit (BdbQuit)
Debugger == {"continue", "quit"}
\* pydrake's LinearConstraint: builds that throw unless A is finite, in the
\* constructor and in UpdateCoefficients, and builds that take A as it is
DrakeBuild == {"checks_finite", "unchecked"}

NoSolution == [success |-> FALSE, x |-> NaNVec(NVars)]
NoTick == [site |-> "none", ic |-> Zeros(9), obs |-> Zeros(6), risk |-> RiskLoose,
           fed |-> FVec(Zeros(NVars)), lin |-> FVec(Zeros(NVars)),
           halfspace |-> [nan |-> FALSE, hx |-> Zeros(Nodes), hy |-> Zeros(Nodes)],
           debugger |-> "none", outcome |-> "none", ineq_rows_built |-> 0,
           before |-> [a_state |-> FVec(Zeros(FullSize * Nodes)),
                       full_state_trajectory |-> FVec(Zeros(FullSize * Nodes))]]

\* __init__
Init ==
    /\ dt \in DtSet
    /\ setpoint = FVec(Zeros(NVars))
    /\ warm_start = FVec(Zeros(NVars))
    /\ full_state_trajectory = FVec(Zeros(FullSize * Nodes))
    /\ a_state = FVec(Zeros(FullSize * Nodes))
    /\ prog = NoProg
    /\ solution = NoSolution
    /\ tick = NoTick
    /\ sim = "initialization"
    /\ context_time = 0
    /\ pending = {"initialize"}
    /\ trajectory_time = 0
    /\ trajectory = << >>
    /\ parser_a_state = Zeros(FullSize)
    /\ main = [pc |-> "initialize", next_time_step |-> 1, attempts |-> 0,
               raised |-> FALSE, landed_adversary |-> 0, landed_agent |-> 0,
               archived |-> FALSE]

\* ------------------------------------------------------- parse_solution
\* (mutant) the Jacobians and residuals evaluated at the warm start
LinearizationPointWarmStart(sp, ws) == ws
\* the point handed to the Jacobian and residual functions: self._setpoint
LinearizationPoint(sp, ws) == sp
\* [x, y, dx, dy, ddx, ddy] of the solution
FullStateTrajectory(x) ==
    IF x.nan THEN NaNVec(FullSize * Nodes)
    ELSE FVec(Vec([c \in 1..(FullSize * Nodes) |->
            LET j == ((c - 1) % Nodes) + 1
            IN  CASE ChannelOf(c) = Ch.ux ->
                         ComputeAcceleration(At(x.v, Ch.ux, j), At(x.v, Ch.dx, j))
                  [] ChannelOf(c) = Ch.uy ->
                         ComputeAcceleration(At(x.v, Ch.uy, j), At(x.v, Ch.dy, j))
                  [] OTHER -> x.v[c]]))
\* (mutant) the accelerations of the published trajectory stored in place of
\* the controls
WarmStartWithAcceleration(x) ==
    IF x.nan THEN NaNVec(NVars)
    ELSE FVec(Vec([c \in 1..NVars |->
            IF ChannelOf(c) \in {Ch.ux, Ch.uy}
            THEN FullStateTrajectory(x).v[c] ELSE x.v[c]]))
\* [x, y, dx, dy, ux, uy, sx, sy, s] of the solution
WarmStart(x) == IF x.nan THEN NaNVec(NVars) ELSE FVec(Vec([c \in 1..NVars |-> x.v[c]]))

\* parse_solution after self.solution = sol: on a failure the report and
\* pdb.set_trace(), which the operator leaves by continuing (the statements
\* below the if run) or by quitting (BdbQuit leaves the tick)
ParseSolution(sol, dbg) ==
    IF ~sol.success /\ dbg = "quit"
    THEN /\ UNCHANGED << warm_start, full_state_trajectory, a_state >>
    ELSE /\ full_state_trajectory' = FullStateTrajectory(sol.x)
         /\ warm_start' = WarmStart(sol.x)
         /\ a_state' = FullStateTrajectory(sol.x)
Outcome(sol, dbg) == IF ~sol.success /\ dbg = "quit" THEN "raised" ELSE "returned"
DebuggerChoices(sol) == IF sol.success THEN {"none"} ELSE Debugger

\* the program a tick leaves behind when the inequality block is refused: the
\* equality block is already added (build, 446-451) or updated and pruned
\* (update, 545-550), the inequality block and the cost are not
RefusedProgram(site, pr) ==
    IF site = "build"
    THEN [built |-> FALSE, num_vars |-> pr.num_vars, bbox_lb |-> pr.bbox_lb,
          bbox_ub |-> pr.bbox_ub, linear |-> << pr.linear[1] >>, costs |-> << >>]
    ELSE [pr EXCEPT !.linear[2] = prog.linear[2], !.costs = prog.costs]

\* the Simulator after a handler returned, and after it raised: the exception
\* leaves Initialize or AdvanceTo, and the owning script makes no further call
\* (experiment_1_script.py 138, 217-224)
AfterHandler(outcome) == IF outcome = "returned" THEN "periodic" ELSE "aborted"

\* the tick from Solve to the end of parse_solution
SolveAndParse(site, ic, obs, risk, lin, h, pr) ==
    \E sol \in Solve(pr, warm_start) :
      \E dbg \in DebuggerChoices(sol) :
        /\ prog' = pr
        /\ solution' = sol
        /\ ParseSolution(sol, dbg)
        /\ tick' = [site |-> site, ic |-> ic, obs |-> obs, risk |-> risk,
                    fed |-> warm_start, lin |-> lin, halfspace |-> h,
                    debugger |-> dbg, outcome |-> Outcome(sol, dbg),
                    ineq_rows_built |-> IF site = "build" THEN Len(pr.linear[2].A)
                                        ELSE tick.ineq_rows_built,
                    before |-> [a_state |-> a_state,
                                full_state_trajectory |-> full_state_trajectory]]
        /\ sim' = AfterHandler(Outcome(sol, dbg))
        /\ UNCHANGED << dt, setpoint >>
\* the tick left by the exception of AddLinearConstraint (453) or
\* UpdateCoefficients (552): nothing is solved, parsed or stored
Refused(site, ic, obs, risk, lin, h, pr) ==
    /\ prog' = RefusedProgram(site, pr)
    /\ tick' = [site |-> site, ic |-> ic, obs |-> obs, risk |-> risk,
                fed |-> warm_start, lin |-> lin, halfspace |-> h,
                debugger |-> "none", outcome |-> "refused",
                ineq_rows_built |-> tick.ineq_rows_built,
                before |-> [a_state |-> a_state,
                            full_state_trajectory |-> full_state_trajectory]]
    /\ sim' = AfterHandler("refused")
    /\ UNCHANGED << dt, setpoint, warm_start, full_state_trajectory, a_state, solution >>

\* what a tick at `site` with these inputs does after the coefficients are
\* computed; pr is the program with them in place.  Which pydrake build runs
\* is not known from the source: either is allowed at every tick, a superset of
\* the runs of each build
Tick(site, ic, obs, risk, lin, h, pr) ==
    \E build \in DrakeBuild :
      IF build = "checks_finite" /\ pr.linear[2].nan # {}
      THEN Refused(site, ic, obs, risk, lin, h, pr)
      ELSE SolveAndParse(site, ic, obs, risk, lin, h, pr)

\* (mutant) build_optimization declared as a periodic event too
InitializationEventPeriodic(s) == s \in {"initialization", "periodic"}
\* DeclareInitializationEvent (150-155): dispatched once, by Simulator.Initialize
InitializationEventDue(s) == s = "initialization"
\* DeclarePeriodicEvent (161-168), offset 0: dispatched at time 0 after the
\* initialization events, and then once per period
PeriodicEventDue(s) == s = "periodic"

\* on_initialize: build_optimization
BuildOptimization ==
    /\ InitializationEventDue(sim)
    /\ \E ic \in ICSet, obs \in ObsSet, risk \in RiskSet :
         LET icc == ConvertInitialConditions(ic)
             ot == ObstacleTrajectory(obs)
             h == HalfspaceVector(ot, warm_start)
             lin == LinearizationPoint(setpoint, warm_start)
             k == Coefficients(lin, icc, ot, h, risk, dt)
         IN  Tick("build", ic, obs, risk, lin, h, BuildProgram(k))
    /\ UNCHANGED << parser_vars, main_vars >>

\* on_periodic: update_qp
UpdateQp ==
    /\ PeriodicEventDue(sim)
    /\ \E ic \in ICSet, obs \in ObsSet, risk \in RiskSet :
         LET icc == ConvertInitialConditions(ic)
             ot == ObstacleTrajectory(obs)
             h == HalfspaceVector(ot, warm_start)
             lin == LinearizationPoint(setpoint, warm_start)
             k == Coefficients(lin, icc, ot, h, risk, dt)
         IN  Tick("update", ic, obs, risk, lin, h, UpdateProgram(prog, k))
    /\ UNCHANGED << parser_vars, main_vars >>

Next == BuildOptimization \/ UpdateQp
Spec == Init /\ [][Next]_vars

\* ===================================================== TrajectoryParser
\* _INPUT_UPDATE_RATE = 1/10 s and _OUTPUT_UPDATE_RATE = 1/100 s, in 1/DtDen s
InputUpdateRate == DtDen \div 10
OutputUpdateRate == DtDen \div 100
\* the motion plans read from parser_input: full_size rows of nodes samples,
\* channel-major as the planner publishes them
PlanRamp == Vec([c \in 1..(FullSize * Nodes) |-> 100 * c])
PlanStep == Vec([c \in 1..(FullSize * Nodes) |-> IF c % Nodes = 1 THEN 0 - 400 ELSE 400])
PlanSet == {PlanRamp, PlanStep}

\* PiecewisePolynomial.FirstOrderHold(breaks = _time_trajectory, samples).value(t):
\* linear between the breaks, the end values outside them
Segment(t) ==
    LET ks == {k \in 1..(Nodes - 1) : TimeVector(k) <= t}
    IN  IF ks = {} THEN 1 ELSE CHOOSE k \in ks : \A o \in ks : o <= k
Value(samples, t) ==
    LET tc == Max(TimeVector(1), Min(TimeVector(Nodes), t))
        k == Segment(tc)
    IN  Vec([ch \in 1..FullSize |->
            LET lo == samples[(ch - 1) * Nodes + k]
                hi == samples[(ch - 1) * Nodes + k + 1]
            IN  lo + TruncDiv((hi - lo) * (tc - TimeVector(k)),
                              TimeVector(k + 1) - TimeVector(k))])

\* (mutant) the plan evaluated at the context time
CurrentTimeOfContext(now, stamp) == now
\* current_time = context.get_time() - self._trajectory_time
CurrentTime(now, stamp) == now - stamp

\* the periodic events (offset 0) due at time t
EventsDue(t) ==
    (IF t % InputUpdateRate = 0 THEN {"input"} ELSE {})
    \cup (IF t % OutputUpdateRate = 0 THEN {"output"} ELSE {})

\* on_initialize; the periodic events of time 0 are dispatched after it
ParserOnInitialize ==
    /\ "initialize" \in pending
    /\ trajectory_time' = 0
    /\ trajectory' = Zeros(FullSize * Nodes)
    /\ pending' = EventsDue(context_time)
    /\ UNCHANGED << context_time, parser_a_state, engine_vars, main_vars >>

\* periodic_input_event
PeriodicInputEvent ==
    /\ "input" \in pending
    /\ \E motion_plan \in PlanSet :
         /\ trajectory_time' = context_time
         /\ trajectory' = motion_plan
    /\ pending' = pending \ {"input"}
    /\ UNCHANGED << context_time, parser_a_state, engine_vars, main_vars >>

\* periodic_output_event
PeriodicOutputEvent ==
    /\ "output" \in pending
    /\ LET current_time == CurrentTime(context_time, trajectory_time)
       IN  parser_a_state' = Value(trajectory, current_time)
    /\ pending' = pending \ {"output"}
    /\ UNCHANGED << context_time, trajectory_time, trajectory, engine_vars, main_vars >>

\* the Simulator advances the context to the next event time
ParserAdvance ==
    /\ pending = {}
    /\ context_time < ParserSteps * OutputUpdateRate
    /\ context_time' = context_time + OutputUpdateRate
    /\ pending' = EventsDue(context_time + OutputUpdateRate)
    /\ UNCHANGED << trajectory_time, trajectory, parser_a_state, engine_vars, main_vars >>

NextParser ==
    ParserOnInitialize \/ PeriodicInputEvent \/ PeriodicOutputEvent \/ ParserAdvance
SpecParser == Init /\ [][NextParser]_vars

\* ============================================================== main()
\* (mutant) the except clause without its break
AfterExceptContinue(m) == [m EXCEPT !.pc = "while"]
\* break (224)
AfterExcept(m) == [m EXCEPT !.pc = "land"]

\* simulator.Initialize() (138), outside any try: it returns, or it raises and
\* the script ends with the exception
MainInitialize ==
    /\ main.pc = "initialize"
    /\ \E raises \in BOOLEAN :
         main' = [main EXCEPT !.pc = IF raises THEN "crashed" ELSE "while"]
    /\ UNCHANGED << engine_vars, parser_vars >>

\* while next_time_step <= FINAL_TIME (187), and the logging of 188-215
MainWhile ==
    /\ main.pc = "while"
    /\ main' = [main EXCEPT !.pc = IF main.next_time_step <= FinalSteps
                                    THEN "try" ELSE "land"]
    /\ UNCHANGED << engine_vars, parser_vars >>

\* try: simulator.AdvanceTo(next_time_step); next_time_step += dt (217-219)
MainAdvanceTo ==
    /\ main.pc = "try"
    /\ \E raises \in BOOLEAN :
         main' = IF raises
                 THEN [main EXCEPT !.pc = "except", !.attempts = @ + 1, !.raised = TRUE]
                 ELSE [main EXCEPT !.pc = "while", !.attempts = @ + 1,
                                   !.next_time_step = @ + 1]
    /\ UNCHANGED << engine_vars, parser_vars >>

\* except: both landing sequences, break (220-224)
MainExcept ==
    /\ main.pc = "except"
    /\ main' = AfterExcept([main EXCEPT !.landed_adversary = @ + 1,
                                        !.landed_agent = @ + 1])
    /\ UNCHANGED << engine_vars, parser_vars >>

\* after the loop: both landing sequences (226-228)
MainLand ==
    /\ main.pc = "land"
    /\ main' = [main EXCEPT !.pc = "shelve", !.landed_adversary = @ + 1,
                            !.landed_agent = @ + 1]
    /\ UNCHANGED << engine_vars, parser_vars >>

\* shelve_list.shelve_list(...) (230-235)
MainShelve ==
    /\ main.pc = "shelve"
    /\ main' = [main EXCEPT !.pc = "done", !.archived = TRUE]
    /\ UNCHANGED << engine_vars, parser_vars >>

NextMain ==
    MainInitialize \/ MainWhile \/ MainAdvanceTo \/ MainExcept \/ MainLand \/ MainShelve
SpecMain == Init /\ [][NextMain]_vars

\* ================================================================ claims
Ticked == tick.site # "none"
\* the tick reached the solver
Solved == Ticked /\ tick.outcome # "refused"
Failed == Solved /\ ~solution.success
Accepted == Solved /\ solution.success
ZeroPoint == FVec(Zeros(NVars))

\* C1: after a tick whose solve is not a success, the stored warm start equals
\* the warm start that was fed to the solver at that tick.
C1_WarmStartContinuity == Failed => warm_start = tick.fed

\* C2: after a tick whose solve is not a success, the published trajectory (the
\* abstract output state and _full_state_trajectory) is what it was before the tick.
C2_NoUpdateOnFailure ==
    Failed => /\ a_state = tick.before.a_state
              /\ full_state_trajectory = tick.before.full_state_trajectory

\* C3: at both call sites a solve that is not a success is reported to the
\* caller of the tick, which does not complete as if a plan had been produced.
C3_FailureSurfaced == Failed => tick.outcome = "raised"

\* C4: after the first build and any number of ticks the program has (6+3)*N
\* decision variables, one equality block of 6 + 4*(N-1) rows, one inequality
\* block with the row count of the first build, one box and one cost.
C4_StructureFixed ==
    prog.built =>
      /\ prog.num_vars = (6 + 3) * Nodes
      /\ Len(prog.bbox_lb) = prog.num_vars /\ Len(prog.bbox_ub) = prog.num_vars
      /\ Len(prog.linear) = 2
      /\ Len(prog.costs) = 1
      /\ Len(prog.linear[1].A) = 6 + 4 * (Nodes - 1)
      /\ Len(prog.linear[2].A) = tick.ineq_rows_built
      /\ \A b \in 1..Len(prog.linear) :
            /\ Len(prog.linear[b].lb) = Len(prog.linear[b].A)
            /\ Len(prog.linear[b].ub) = Len(prog.linear[b].A)
            /\ \A r \in 1..Len(prog.linear[b].A) : Len(prog.linear[b].A[r]) = prog.num_vars
      /\ Len(prog.costs[1].Q) = prog.num_vars /\ Len(prog.costs[1].b) = prog.num_vars
\* an update tick that failed, run on a warm start that an earlier tick stored
C4_Witness == tick.site = "update" /\ ~solution.success /\ tick.fed # ZeroPoint

\* C5: in every reachable state the position slacks of the stored warm start
\* are >= 0 and its risk slacks are <= 0, at every node.
C5_SlackSigns ==
    /\ ~warm_start.nan
    /\ \A j \in 1..Nodes : /\ At(warm_start.v, Ch.sx, j) >= 0
                           /\ At(warm_start.v, Ch.sy, j) >= 0
                           /\ At(warm_start.v, Ch.s, j) <= 0

\* C6: node 0 of the trajectory published by an accepted solve equals the
\* measured position, velocity and planar acceleration of the tick.
C6_InitialNode ==
    Accepted => /\ ~a_state.nan
                /\ At(a_state.v, Ch.x, 1) = tick.ic[1]
                /\ At(a_state.v, Ch.y, 1) = tick.ic[2]
                /\ At(a_state.v, Ch.dx, 1) = tick.ic[4]
                /\ At(a_state.v, Ch.dy, 1) = tick.ic[5]
                /\ At(a_state.v, Ch.ux, 1) = tick.ic[7]
                /\ At(a_state.v, Ch.uy, 1) = tick.ic[8]

\* the value each of the six node-0 rows is to bind, the control rows to the
\* drag-model control equivalent of the measured acceleration
Measured(ic) == << ic[1], ic[2], ic[4], ic[5],
                   ConvertToControl(ic[7], ic[4]), ConvertToControl(ic[8], ic[5]) >>
NodeZeroVar(r) == Idx(r, 1)
OutsideBox(ic) ==
    \E r \in 1..6 : \/ Measured(ic)[r] < OptVarLb[NodeZeroVar(r)]
                    \/ Measured(ic)[r] > OptVarUb[NodeZeroVar(r)]
\* C7: the six node-0 equality rows bind x[0], y[0], dx[0], dy[0], ux[0], uy[0]
\* exactly to the measured values (never clamped), also outside the box, and a
\* tick whose initial condition is outside the box ends as a reported failure.
C7_NoSilentClamp ==
    Ticked =>
      /\ \A r \in 1..6 :
            /\ \A c \in 1..NVars :
                  prog.linear[1].A[r][c] = IF c = NodeZeroVar(r) THEN EqDen ELSE 0
            /\ prog.linear[1].lb[r] = EqDen * Measured(tick.ic)[r]
            /\ prog.linear[1].ub[r] = EqDen * Measured(tick.ic)[r]
      /\ OutsideBox(tick.ic) => (~solution.success /\ tick.outcome = "raised")

\* C8: for every accepted solution the explicit-Euler defects of every
\* transition are zero on both axes.
C8_CollocationDefects ==
    Accepted =>
      \A i \in 1..(Nodes - 1) :
        LET q == solution.x.v
        IN  /\ CollocationConstraint(At(q, Ch.x, i + 1), At(q, Ch.x, i),
                                     MassMilli * At(q, Ch.dx, i), dt) = 0
            /\ CollocationConstraint(At(q, Ch.y, i + 1), At(q, Ch.y, i),
                                     MassMilli * At(q, Ch.dy, i), dt) = 0
            /\ CollocationConstraint(At(q, Ch.dx, i + 1), At(q, Ch.dx, i),
                                     MassTimesAcc(At(q, Ch.ux, i), At(q, Ch.dx, i)), dt) = 0
            /\ CollocationConstraint(At(q, Ch.dy, i + 1), At(q, Ch.dy, i),
                                     MassTimesAcc(At(q, Ch.uy, i), At(q, Ch.dy, i)), dt) = 0

\* C9: two coefficient rebuilds, by either call site, with the same initial
\* condition, obstacle state, risk parameters and stored warm start leave the
\* same A_eq, b_eq, A_ineq, inequality bounds, H and f in the program.
C9_RebuildIdempotent ==
    [][ (/\ Ticked /\ tick'.site # "none"
         /\ tick'.ic = tick.ic /\ tick'.obs = tick.obs /\ tick'.risk = tick.risk
         /\ tick'.fed = tick.fed)
        => (prog'.linear = prog.linear /\ prog'.costs = prog.costs) ]_vars

C11_HalfspaceRecomputed ==
    Ticked =>
      /\ tick.halfspace.nan = tick.fed.nan
      /\ \A j \in 1..Nodes :
            /\ tick.halfspace.hx[j] =
                  tick.obs[1] + TruncDiv(tick.obs[4] * TimeVector(j), DtDen)
                  - At(tick.fed.v, Ch.x, j)
            /\ tick.halfspace.hy[j] =
                  tick.obs[2] + TruncDiv(tick.obs[5] * TimeVector(j), DtDen)
                  - At(tick.fed.v, Ch.y, j)
      /\ Solved =>
            prog.linear[2].ub =
              Negate(InequalityConstraints(Zeros(NVars), ObstacleTrajectory(tick.obs),
                                           UnitNormal(tick.halfspace), tick.risk))
\* an update tick fed a plan that leaves the origin
C11_Witness ==
    /\ tick.site = "update" /\ Solved /\ ~tick.fed.nan
    /\ \E j \in 1..Nodes : At(tick.fed.v, Ch.x, j) # 0 \/ At(tick.fed.v, Ch.y, j) # 0

\* C12: build_optimization runs once, as the first tick, on an engine not yet
\* built; every later tick is update_qp, on a built engine, and leaves it built.
C12_BuiltOnce ==
    [][ /\ tick'.site = "build" => (tick.site = "none" /\ ~prog.built)
        /\ tick'.site = "update" => (tick.site # "none" /\ prog.built /\ prog'.built)
      ]_vars
\* an update tick on the built engine, after a tick that stored a failed result
C12_Witness ==
    tick.site = "update" /\ tick.ineq_rows_built > 0 /\ tick.fed.nan /\ sim = "periodic"

C15_OneGrid ==
    Ticked => \A i \in 1..(Nodes - 1) : dt = TimeVector(i + 1) - TimeVector(i)

\* C16: in every program handed to the solver no coefficient of the equality
\* or inequality matrix has a magnitude strictly between 0 and the tolerance.
C16_NoTinyCoefficient ==
    Solved =>
      /\ \A r \in 1..Len(prog.linear[1].A) : \A c \in 1..NVars :
            \/ prog.linear[1].A[r][c] = 0
            \/ Abs(prog.linear[1].A[r][c]) * Milli >= TolMilli * EqDen
      /\ \A r \in 1..Len(prog.linear[2].A) : \A c \in 1..NVars :
            \/ r \in prog.linear[2].nan
            \/ prog.linear[2].A[r][c] = 0
            \/ Abs(prog.linear[2].A[r][c]) * Milli >= TolMilli * IneqDen

\* C17: the inequality block is 4*N workspace rows followed by
\* spline_resolution*N risk rows, and the row of segment i and node j is the
\* bound s[j] <= slope[i]*d[j] + intercept[i]: it reads
\* s[j] + slope[i]*(n[j] . position[j]) <= slope[i]*(n[j] . obstacle[j]) + intercept[i]
\* with n[j] the halfspace vector at node j over its norm, so that the vectors
\* that satisfy the block are those within the bound.
C17_RiskBound ==
    Solved =>
      /\ Len(prog.linear[2].A) = 4 * Nodes + SplineResolution * Nodes
      /\ \A i \in 1..SplineResolution : \A j \in 1..Nodes :
            LET r == 4 * Nodes + (i - 1) * Nodes + j
                n == UnitNormal(tick.halfspace)
                ot == ObstacleTrajectory(tick.obs)
            IN  j \notin n.degenerate =>
                  /\ \A c \in 1..NVars :
                        prog.linear[2].A[r][c] =
                          CASE c = Idx(Ch.s, j) -> IneqDen
                            [] c = Idx(Ch.x, j) -> tick.risk[i][1] * n.nx[j]
                            [] c = Idx(Ch.y, j) -> tick.risk[i][1] * n.ny[j]
                            [] OTHER -> 0
                  /\ prog.linear[2].ub[r] =
                        tick.risk[i][1] * (ot.px[j] * n.nx[j] + ot.py[j] * n.ny[j])
                        + IneqDen * tick.risk[i][2]

\* the halfspace vector of the tick is zero at some node
DegenerateTick ==
    /\ Ticked /\ ~tick.halfspace.nan
    /\ \E j \in 1..Nodes : tick.halfspace.hx[j] = 0 /\ tick.halfspace.hy[j] = 0
OutputStep == "output" \in pending /\ pending' = pending \ {"output"}
InputStep == "input" \in pending /\ pending' = pending \ {"input"}
\* C19: an output event sets the setpoint to the stored plan evaluated at
\* elapsed = now - (time of the latest input event), 0 <= elapsed <= the input
\* period, in whichever order the events of one instant are dispatched; it
\* changes neither the stored plan nor its timestamp, which only the input
\* event (and the initialization) replaces, the timestamp by now.
C19_SetpointAtElapsed ==
    [][ /\ OutputStep =>
             /\ parser_a_state' = Value(trajectory, context_time - trajectory_time)
             /\ 0 <= context_time - trajectory_time
             /\ context_time - trajectory_time <= InputUpdateRate
             /\ trajectory' = trajectory /\ trajectory_time' = trajectory_time
        /\ (trajectory' # trajectory \/ trajectory_time' # trajectory_time) =>
             \/ InputStep /\ trajectory_time' = context_time
             \/ "initialize" \in pending
      ]_vars
\* at an instant of both events the output event went first: the plan of the
\* previous input event evaluated a whole input period on
C19_Witness ==
    /\ pending = {"input"} /\ context_time >= 2 * InputUpdateRate
    /\ trajectory_time = context_time - InputUpdateRate
    /\ parser_a_state = Value(trajectory, InputUpdateRate)
    /\ parser_a_state # Value(trajectory, 0)

\* C20: once AdvanceTo has raised no further advance is attempted and both
\* landing sequences are executed; whenever the results are archived, by
\* either way out of the loop, both landing sequences have been executed.
C20_SafeStop ==
    [][ /\ main.raised => main'.attempts = main.attempts
        /\ (main.raised /\ main'.pc \in {"land", "shelve", "done"}) =>
              (main'.landed_adversary >= 1 /\ main'.landed_agent >= 1)
        /\ main'.archived => (main'.landed_adversary >= 1 /\ main'.landed_agent >= 1)
      ]_vars
\* the results archived after an advance raised in the course of the loop
C20_Witness == main.archived /\ main.raised /\ main.attempts > 1
====
